---- MODULE Spec2Model ----
(***************************************************************************)
(* Parallel Zykov branch-and-bound graph colouring solver (MPI workers x   *)
(* OpenMP tasks).  The graph quotient operators, the two bounding oracles, *)
(* the branching rule, the decomposer and the coordinator are translated   *)
(* from src/src/graph.cpp, src/src/branch_and_bound.cpp, src/src/main.cpp. *)
(* Vertices are 0-based as in the source; vectors indexed by vertex are    *)
(* functions over 0..n-1, other vectors are sequences.                     *)
(***************************************************************************)
EXTENDS Integers, Sequences, FiniteSets, TLC

\* ------------------------------------------------------------------------
\* Program constants
\* ------------------------------------------------------------------------
INF == 1000000000
MIN_VERTICES_FOR_TASK == 30
MAX_TASK_DEPTH == 4
\* main.cpp passes the literal 2 as decompDepth and as the workers' start depth
DecompDepth == 2
TaskStartDepth == 2

\* ------------------------------------------------------------------------
\* Small helpers for vectors
\* ------------------------------------------------------------------------
Max2(a, b) == IF a >= b THEN a ELSE b

SetMax(S) == CHOOSE x \in S : \A y \in S : y <= x

SetMin(S) == CHOOSE x \in S : \A y \in S : x <= y

\* the element of a singleton: its set-builder binds a value computed once
TheOnly(S) == CHOOSE x \in S : TRUE

\* a function as its table of values: the comparison tabulates it, so that
\* later applications look the value up instead of evaluating the definition
Table(f) == CHOOSE t \in {f} : t = t

SeqToSet(s) == {s[k] : k \in 1..Len(s)}

\* std::remove / erase of the value v from a vector
RemoveVal(s, v) == SelectSeq(s, LAMBDA x : x # v)

\* ------------------------------------------------------------------------
\* Graph (graph.hpp) and its constructors
\* ------------------------------------------------------------------------
\* Graph::Graph(int n_): n isolated vertices, mapping[i] = [i]
NewGraph(n_) ==
  [n |-> n_, orig_n |-> n_,
   adj |-> [i \in 0..(n_ - 1) |-> {}],
   mapping |-> [i \in 0..(n_ - 1) |-> <<i>>]]

\* readGraphFromCOLFile after parsing: n from the p-line, the e-lines as a
\* set of 0-based pairs; out-of-range edges are skipped.
readGraphFromCOLFile(n_, edges) ==
  LET g == NewGraph(n_)
      ok == {e \in edges : e[1] >= 0 /\ e[1] < n_ /\ e[2] >= 0 /\ e[2] < n_}
  IN [g EXCEPT !.adj = [u \in 0..(n_ - 1) |->
          {e[2] : e \in {x \in ok : x[1] = u}} \cup
          {e[1] : e \in {x \in ok : x[2] = u}}]]

\* mergeVertices that leaves out the insertion of mapping[j] (line 91): the
\* merged vertex stands for the originals of i only
mergeVerticesDropMapping(g, i, j) ==
  LET nn == g.n - 1
      newIndices == [a \in 0..(nn - 1) |-> IF a < j THEN a ELSE a + 1]
      connected(a, b) ==
        LET origA == newIndices[a]
            origB == newIndices[b]
        IN IF origA = i \/ origB = i
           THEN IF origA = i
                THEN origB \in g.adj[i] \/ origB \in g.adj[j]
                ELSE i \in g.adj[origA] \/ j \in g.adj[origA]
           ELSE origB \in g.adj[origA]
  IN [n |-> nn, orig_n |-> g.orig_n,
      adj |-> [a \in 0..(nn - 1) |->
                 {b \in 0..(nn - 1) :
                    (a < b /\ connected(a, b)) \/ (b < a /\ connected(b, a))}],
      mapping |-> [a \in 0..(nn - 1) |-> g.mapping[newIndices[a]]]]

\* mergeVertices that takes the neighbours of the merged vertex from i
\* alone (lines 81 and 83 without their second disjunct)
mergeVerticesNeighboursOfI(g, i, j) ==
  LET nn == g.n - 1
      newIndices == [a \in 0..(nn - 1) |-> IF a < j THEN a ELSE a + 1]
      connected(a, b) ==
        LET origA == newIndices[a]
            origB == newIndices[b]
        IN IF origA = i \/ origB = i
           THEN IF origA = i
                THEN origB \in g.adj[i]
                ELSE i \in g.adj[origA]
           ELSE origB \in g.adj[origA]
  IN [n |-> nn, orig_n |-> g.orig_n,
      adj |-> [a \in 0..(nn - 1) |->
                 {b \in 0..(nn - 1) :
                    (a < b /\ connected(a, b)) \/ (b < a /\ connected(b, a))}],
      mapping |-> [a \in 0..(nn - 1) |->
                 IF newIndices[a] = i
                 THEN g.mapping[i] \o g.mapping[j]
                 ELSE g.mapping[newIndices[a]]]]

\* Graph::mergeVertices(i, j)
mergeVertices(g, i, j) ==
  LET nn == g.n - 1
      newIndices == [a \in 0..(nn - 1) |-> IF a < j THEN a ELSE a + 1]
      connected(a, b) ==
        LET origA == newIndices[a]
            origB == newIndices[b]
        IN IF origA = i \/ origB = i
           THEN IF origA = i
                THEN origB \in g.adj[i] \/ origB \in g.adj[j]
                ELSE i \in g.adj[origA] \/ j \in g.adj[origA]
           ELSE origB \in g.adj[origA]
  IN [n |-> nn, orig_n |-> g.orig_n,
      adj |-> [a \in 0..(nn - 1) |->
                 {b \in 0..(nn - 1) :
                    (a < b /\ connected(a, b)) \/ (b < a /\ connected(b, a))}],
      mapping |-> [a \in 0..(nn - 1) |->
                 IF newIndices[a] = i
                 THEN g.mapping[i] \o g.mapping[j]
                 ELSE g.mapping[newIndices[a]]]]

\* addEdge without line 107: j becomes a neighbour of i, not i of j
addEdgeOneWay(g, i, j) ==
  IF i < g.n /\ j < g.n
  THEN [g EXCEPT !.adj = [v \in 0..(g.n - 1) |->
            IF v = i THEN g.adj[v] \cup {j} ELSE g.adj[v]]]
  ELSE g

\* Graph::addEdge(i, j)
addEdge(g, i, j) ==
  IF i < g.n /\ j < g.n
  THEN [g EXCEPT !.adj = [v \in 0..(g.n - 1) |->
            IF v = i /\ v = j THEN g.adj[v] \cup {i}
            ELSE IF v = i THEN g.adj[v] \cup {j}
            ELSE IF v = j THEN g.adj[v] \cup {i}
            ELSE g.adj[v]]]
  ELSE g

\* ------------------------------------------------------------------------
\* Bron-Kerbosch with pivoting (graph.cpp, bronKerbosch)
\* R, P, X are vectors (sequences); best = [size, clique] is the pair
\* (bestSize, bestClique) threaded by reference through the recursion.
\* ------------------------------------------------------------------------
\* count of w in P adjacent to u
PivotCount(adj, u, P) == Cardinality({k \in 1..Len(P) : P[k] \in adj[u]})

\* first u of P ++ X with strictly maximal count (maxCount starts at -1)
ChoosePivot(adj, P, X) ==
  LET unionPX == P \o X
      count == [m \in 1..Len(unionPX) |-> PivotCount(adj, unionPX[m], P)]
      k == CHOOSE k \in 1..Len(unionPX) :
             /\ \A m \in 1..Len(unionPX) : count[m] <= count[k]
             /\ \A m \in 1..(k - 1) : count[m] < count[k]
  IN unionPX[k]

RECURSIVE bronKerbosch(_, _, _, _, _)
RECURSIVE bkLoop(_, _, _, _, _, _, _, _)

\* iterations lo..hi of the for-loop over pWithoutPivot (todo).  P and X
\* are the vectors on entry of the loop: before iteration k the loop has
\* erased todo[1..k-1] from P and pushed them onto X, and it has left at
\* `break' if that emptied P.  The range is halved so that the evaluation
\* nests to the logarithm of the number of iterations.
bkLoop(adj, R, P, X, todo, lo, hi, best) ==
  IF lo > hi THEN best
  ELSE IF lo = hi
  THEN LET v == todo[lo]
           erased == {todo[k] : k \in 1..(lo - 1)}
           curP == SelectSeq(P, LAMBDA w : w \notin erased)
           curX == X \o SubSeq(todo, 1, lo - 1)
           newP == SelectSeq(curP, LAMBDA w : w \in adj[v])
           newX == SelectSeq(curX, LAMBDA w : w \in adj[v])
       IN IF lo > 1 /\ curP = <<>> THEN best
          ELSE bronKerbosch(adj, Append(R, v), newP, newX, best)
  ELSE LET mid == (lo + hi) \div 2
       IN TheOnly({bkLoop(adj, R, P, X, todo, mid + 1, hi, b) :
                     b \in {bkLoop(adj, R, P, X, todo, lo, mid, best)}})

bronKerbosch(adj, R, P, X, best) ==
  IF P = <<>> /\ X = <<>>
  THEN IF Len(R) > best.size THEN [size |-> Len(R), clique |-> R] ELSE best
  ELSE LET pivot == ChoosePivot(adj, P, X)
           pWithoutPivot == SelectSeq(P, LAMBDA v : v \notin adj[pivot])
       IN bkLoop(adj, R, P, X, pWithoutPivot, 1, Len(pWithoutPivot), best)

\* heuristicMaxClique whose loop of line 236 stops one vertex early: the
\* last vertex is not a candidate
heuristicMaxCliqueSkipLast(g) ==
  LET P == [k \in 1..(g.n - 1) |-> k - 1]
  IN TheOnly({bronKerbosch(adj, <<>>, P, <<>>, [size |-> 0, clique |-> <<>>]) :
                adj \in {g.adj}})

\* Graph::heuristicMaxClique: (bestSize, bestClique)
heuristicMaxClique(g) ==
  LET P == [k \in 1..g.n |-> k - 1]
  IN TheOnly({bronKerbosch(adj, <<>>, P, <<>>, [size |-> 0, clique |-> <<>>]) :
                adj \in {g.adj}})

\* ------------------------------------------------------------------------
\* DSATUR (graph.cpp, Graph::heuristicColoring)
\* ------------------------------------------------------------------------
\* pickNextVertex lambda: scan v ascending, take v when it beats the best
\* (saturation, degree) seen so far, i.e. the lowest index among the
\* uncoloured vertices of maximal saturation and, among these, maximal
\* degree; -1 when every vertex is coloured
pickNextVertex(g, color, saturation) ==
  LET unc == {v \in 0..(g.n - 1) : color[v] = -1}
      degree == [v \in 0..(g.n - 1) |-> Cardinality(g.adj[v])]
      bestSat == SetMax({saturation[v] : v \in unc})
      bestDeg == SetMax({degree[v] : v \in {u \in unc : saturation[u] = bestSat}})
  IN IF unc = {} THEN -1
     ELSE SetMin({v \in unc : saturation[v] = bestSat /\ degree[v] = bestDeg})

\* SmallestFree without the loop of line 209: c stays 0
SmallestFreeZero(g, color, v) == 0

\* smallest c with c >= nLocal or used[c] = false
SmallestFree(g, color, v) ==
  LET used == {color[w] : w \in {x \in g.adj[v] : color[x] # -1}}
  IN SetMin({c \in 0..g.n : c = g.n \/ c \notin used})

\* one pass of the body of the for-loop over step; st = [color, saturation].
\* When pickNextVertex gives -1 the loop leaves at `break': nothing changes,
\* in this pass or in any later one.
dsaturStep(g, st) ==
  LET v == pickNextVertex(g, st.color, st.saturation)
  IN IF v = -1 THEN st
     ELSE LET c == SmallestFree(g, st.color, v)
              color2 == [st.color EXCEPT ![v] = c]
              seesC(w) == \E x \in g.adj[w] : color2[x] = c
              sat2 == [w \in 0..(g.n - 1) |->
                         IF w \in g.adj[v] /\ color2[w] = -1 /\ ~seesC(w)
                         THEN st.saturation[w] + 1 ELSE st.saturation[w]]
          IN [color |-> Table(color2), saturation |-> Table(sat2)]

\* steps lo..hi of the for-loop, halved as in bkLoop
RECURSIVE dsaturLoop(_, _, _, _)
dsaturLoop(g, lo, hi, st) ==
  IF lo > hi THEN st
  ELSE IF lo = hi THEN dsaturStep(g, st)
  ELSE LET mid == (lo + hi) \div 2
       IN TheOnly({dsaturLoop(g, mid + 1, hi, s) :
                     s \in {dsaturLoop(g, lo, mid, st)}})

\* (usedColors, color)
heuristicColoring(g) ==
  LET start == [color |-> [v \in 0..(g.n - 1) |-> -1],
                saturation |-> [v \in 0..(g.n - 1) |-> 0]]
      color == TheOnly({dsaturLoop(h, 0, h.n - 1, start) : h \in {g}}).color
  IN [k |-> SetMax({0} \cup {color[v] + 1 : v \in 0..(g.n - 1)}),
      color |-> color]

\* ------------------------------------------------------------------------
\* Branching pair (branch_and_bound.cpp, selectBranchingPair)
\* ------------------------------------------------------------------------
\* the scan is in lexicographic order of (i, j) and replaces the best pair
\* only on a strictly larger score: the first pair of maximal score
\* selectBranchingPair with `score >= bestScore' in the test of the scan:
\* the last pair of maximal score
selectBranchingPairLast(g) ==
  LET degrees == [v \in 0..(g.n - 1) |-> Cardinality(g.adj[v])]
      cand == {p \in (0..(g.n - 1)) \X (0..(g.n - 1)) :
                 p[1] < p[2] /\ p[2] \notin g.adj[p[1]]}
      score(p) == degrees[p[1]] + degrees[p[2]]
      bestScore == SetMax({score(p) : p \in cand})
      top == {p \in cand : score(p) = bestScore}
      v1 == SetMax({p[1] : p \in top})
      v2 == SetMax({p[2] : p \in {q \in top : q[1] = v1}})
  IN IF cand = {} THEN <<-1, -1>> ELSE <<v1, v2>>

selectBranchingPair(g) ==
  LET degrees == [v \in 0..(g.n - 1) |-> Cardinality(g.adj[v])]
      cand == {p \in (0..(g.n - 1)) \X (0..(g.n - 1)) :
                 p[1] < p[2] /\ p[2] \notin g.adj[p[1]]}
      score(p) == degrees[p[1]] + degrees[p[2]]
      bestScore == SetMax({score(p) : p \in cand})
      top == {p \in cand : score(p) = bestScore}
      v1 == SetMin({p[1] : p \in top})
      v2 == SetMin({p[2] : p \in {q \in top : q[1] = v1}})
  IN IF cand = {} THEN <<-1, -1>> ELSE <<v1, v2>>

\* ------------------------------------------------------------------------
\* Component pre-pass (graph.cpp, findConnectedComponents / extractSubgraph)
\* ------------------------------------------------------------------------
\* The iteration order of an unordered_set<int> is unspecified: it follows
\* from the order of the e-lines of the input.  order is "asc" or "desc".
\* the elements of S in ascending or in descending order
SetToSeq(S, order) ==
  LET m == Cardinality(S)
      below(x) == Cardinality({y \in S : y < x})
      place(x) == IF order = "asc" THEN below(x) + 1 ELSE m - below(x)
  IN [k \in 1..m |-> CHOOSE x \in S : place(x) = k]

\* one pass of the while-loop over the queue; st = [Q, visited, comp].
\* With the queue empty the loop has ended and nothing changes.
bfsStep(g, order, st) ==
  IF st.Q = <<>> THEN st
  ELSE LET v == Head(st.Q)
           new == SelectSeq(SetToSeq(g.adj[v], order),
                            LAMBDA w : w \notin st.visited)
       IN [Q |-> Tail(st.Q) \o new,
           visited |-> st.visited \cup SeqToSet(new),
           comp |-> st.comp \o new]

\* passes lo..hi of the while-loop: every pass pops one vertex and a vertex
\* is pushed once, so g.n passes empty the queue.  Halved as in bkLoop.
RECURSIVE bfs(_, _, _, _, _)
bfs(g, order, lo, hi, st) ==
  IF lo > hi THEN st
  ELSE IF lo = hi THEN bfsStep(g, order, st)
  ELSE LET mid == (lo + hi) \div 2
       IN TheOnly({bfs(g, order, mid + 1, hi, s) :
                     s \in {bfs(g, order, lo, mid, st)}})

\* the body of the for-loop over start; st = [visited, components]
ccStep(g, order, start, st) ==
  IF start \in st.visited THEN st
  ELSE LET r == bfs(g, order, 1, g.n,
                    [Q |-> <<start>>, visited |-> st.visited \cup {start},
                     comp |-> <<start>>])
       IN [visited |-> r.visited, components |-> Append(st.components, r.comp)]

\* start = lo..hi of the for-loop, halved as in bkLoop
RECURSIVE ccLoop(_, _, _, _, _)
ccLoop(g, order, lo, hi, st) ==
  IF lo > hi THEN st
  ELSE IF lo = hi THEN ccStep(g, order, lo, st)
  ELSE LET mid == (lo + hi) \div 2
       IN TheOnly({ccLoop(g, order, mid + 1, hi, s) :
                     s \in {ccLoop(g, order, lo, mid, st)}})

findConnectedComponents(g, order) ==
  ccLoop(g, order, 0, g.n - 1, [visited |-> {}, components |-> <<>>]).components

\* vertices is a vector of vertex indices of fullG (1-based sequence here)
extractSubgraph(fullG, vertices) ==
  LET m == Len(vertices)
  IN [n |-> m, orig_n |-> fullG.orig_n,
      adj |-> [i \in 0..(m - 1) |->
                 {j \in 0..(m - 1) :
                    \/ i < j /\ vertices[j + 1] \in fullG.adj[vertices[i + 1]]
                    \/ j < i /\ vertices[i + 1] \in fullG.adj[vertices[j + 1]]}],
      mapping |-> [i \in 0..(m - 1) |-> fullG.mapping[vertices[i + 1]]]]

\* ------------------------------------------------------------------------
\* Work decomposer (branch_and_bound.cpp, decomposeBnb)
\* acc = [tasks, calls, nodes] is threaded through the recursion: calls
\* counts the invocations made so far, nodes lists the graphs they were
\* made on and every emitted task carries the ordinal of the invocation
\* that pushed it.  An invocation that finds the time limit
\* reached returns at once (lines 138-139) and so does every later one, so
\* a run whose clock reaches the limit after k invocations builds exactly
\* the tasks pushed by the first k invocations of the unlimited run.
\* ------------------------------------------------------------------------
\* main, line 165: the empty task list
NoTasks == [tasks |-> <<>>, calls |-> 0, nodes |-> <<>>]

RECURSIVE decomposeBnb(_, _, _, _, _)
decomposeBnb(g, depth, decompDepth, acc, dummyNumColors) ==
  LET a1 == [acc EXCEPT !.calls = @ + 1, !.nodes = Append(@, g)]
  IN IF depth >= decompDepth
     THEN [a1 EXCEPT !.tasks = Append(@, [g |-> g, at |-> a1.calls])]
     ELSE LET lb == heuristicMaxClique(g).size
              ub == heuristicColoring(g).k
              pair == selectBranchingPair(g)
          IN IF lb = ub THEN a1
             ELSE IF lb >= dummyNumColors THEN a1
             ELSE IF pair[1] = -1 THEN a1
             ELSE LET childMerge == mergeVertices(g, pair[1], pair[2])
                      childEdge == addEdge(g, pair[1], pair[2])
                      a2 == TheOnly({decomposeBnb(h, depth + 1, decompDepth,
                                                  a1, dummyNumColors) :
                                       h \in {childMerge}})
                  IN TheOnly({decomposeBnb(h, depth + 1, decompDepth,
                                           a, dummyNumColors) :
                                h \in {childEdge}, a \in {a2}})

\* the task list when the clock reaches the limit after k invocations
RECURSIVE TasksWithin(_, _)
TasksWithin(emitted, k) ==
  IF emitted = <<>> \/ Head(emitted).at > k THEN <<>>
  ELSE <<Head(emitted).g>> \o TasksWithin(Tail(emitted), k)

\* ------------------------------------------------------------------------
\* Bounds of the model and the inputs it draws
\* ------------------------------------------------------------------------
\* every graph on up to MaxN vertices is an input
MaxN == 3
\* number of MPI processes: 1..MaxW
MaxW == 2
\* OMP_NUM_THREADS: 1..MaxThreads
MaxThreads == 2

Pairs(n_) == {e \in (0..(n_ - 1)) \X (0..(n_ - 1)) : e[1] < e[2]}

SmallGraphs ==
  UNION {{readGraphFromCOLFile(n_, E) : E \in SUBSET Pairs(n_)} : n_ \in 1..MaxN}

\* the 5-cycle (end-to-end scenario 3 of the specification)
C5 == readGraphFromCOLFile(5, {<<0,1>>, <<1,2>>, <<2,3>>, <<3,4>>, <<0,4>>})

\* 6 vertices, chromatic number 3, clique number 3
Hard6 == readGraphFromCOLFile(6,
  {<<0,1>>, <<0,2>>, <<0,3>>, <<0,4>>, <<1,4>>, <<1,5>>, <<2,3>>, <<2,5>>, <<3,4>>})

\* 7 vertices, chromatic number 3; the decomposer emits two tasks, the
\* second with DSATUR bound 4 and a 3-colouring found only by branching
G7 == readGraphFromCOLFile(7,
  {<<0,1>>, <<0,2>>, <<0,3>>, <<0,4>>, <<1,4>>, <<1,5>>, <<2,3>>, <<2,6>>,
   <<3,4>>, <<5,6>>})

\* a 5-cycle and a disjoint edge: two components
C5K2 == readGraphFromCOLFile(7,
  {<<0,1>>, <<1,2>>, <<2,3>>, <<3,4>>, <<0,4>>, <<5,6>>})

\* Hard6 and an isolated vertex: two components
Hard6K1 == readGraphFromCOLFile(7,
  {<<0,1>>, <<0,2>>, <<0,3>>, <<0,4>>, <<1,4>>, <<1,5>>, <<2,3>>, <<2,5>>, <<3,4>>})

\* Hard6 with 24 leaves on vertex 5, and an isolated vertex: a component
\* of MIN_VERTICES_FOR_TASK vertices, whose calls spawn their children as
\* OpenMP tasks, and a second component
Star30K1 == readGraphFromCOLFile(31,
  {<<0,1>>, <<0,2>>, <<0,3>>, <<0,4>>, <<1,4>>, <<1,5>>, <<2,3>>, <<2,5>>, <<3,4>>}
    \cup {<<5, v>> : v \in 6..29})

SpecialGraphs == {C5, Hard6, G7, C5K2, Hard6K1}

InputGraphs == SmallGraphs \cup SpecialGraphs

Orders == {"asc", "desc"}

\* values an out-of-bounds read of an int vector may produce; the model
\* draws one of them for each run of reads past the end of a buffer
Junk == {-1, 0, 1}

JunkVector(S) == {[v \in S |-> j] : j \in Junk}

\* ------------------------------------------------------------------------
\* State
\* ------------------------------------------------------------------------
VARIABLES
  fullGraph,         \* main: the input graph
  components,        \* main: findConnectedComponents(fullGraph)
  mpiSize,           \* number of MPI processes W
  numThreads,        \* threads of each process's OpenMP team
  canExpire,         \* the time limit is short enough to be reached
  pc,                \* per process: position in main
  expired,           \* per process: a read of the clock found the limit reached
  searchCompleted,   \* per process: the global flag of globals.cpp
  tasks,             \* per process: the task list built by decomposeBnb
  compIdx,           \* per process: loop index i over the components
  best,              \* per process: the live ColoringSolution (compBest / localBest)
  lock,              \* per process: holder of the unnamed omp critical, <<>> = free
  hist,              \* per process: values best.numColors has held (stale reads)
  staleRead,         \* per process: a read of line 100 returned a value that a
                     \* concurrent update had already replaced
  inv,               \* per process: branchAndBound invocations in progress
  localBestColors,   \* per process (multi-component path)
  localColoring,     \* per process (multi-component path)
  globalBestColors,  \* per process
  globalColoring,    \* per process
  report,            \* the output file written by rank 0
  fault,             \* the usage error of the run: what the environment refuses
  opGraph,           \* the Graph object the member functions are called on
  opLast             \* the last call of a member function: arguments and result

vars == <<fullGraph, components, mpiSize, numThreads, canExpire, pc, expired,
          searchCompleted, tasks, compIdx, best, lock, hist, staleRead, inv,
          localBestColors, localColoring, globalBestColors, globalColoring,
          report, fault, opGraph, opLast>>

\* the variables of a run of main
mainVars == <<fullGraph, components, mpiSize, numThreads, canExpire, pc, expired,
              searchCompleted, tasks, compIdx, best, lock, hist, staleRead, inv,
              localBestColors, localColoring, globalBestColors, globalColoring,
              report, fault>>

opVars == <<opGraph, opLast>>

inputVars == <<fullGraph, components, mpiSize, numThreads, canExpire, fault>>

Workers == 0..(mpiSize - 1)

\* ColoringSolution::ColoringSolution(): numColors = INF, empty coloring
NewSolution == [numColors |-> INF, coloring |-> <<>>]

\* vector<int>(orig_n, -1), as a function over 0..orig_n-1
Unassigned(n_) == [v \in 0..(n_ - 1) |-> -1]

NoReport == [written |-> FALSE]

\* every file opens and both arguments are given
NoFault == [kind |-> "none", rank |-> 0]

NoCall == [op |-> "none"]

\* the state of a run: at the entry of main, or (entered) at line 134, past
\* the checks of the arguments and of the files
InitFrom(graphs, orders, sizes, threads, expiry, faults, entered) ==
  /\ fullGraph \in graphs
  /\ \E o \in orders : components = findConnectedComponents(fullGraph, o)
  /\ mpiSize \in sizes
  /\ numThreads \in threads
  /\ canExpire \in expiry
  /\ pc = [w \in Workers |-> IF ~entered THEN "args"
                              ELSE IF Len(components) > 1 THEN "loop" ELSE "decomp"]
  /\ expired = [w \in Workers |-> FALSE]
  /\ searchCompleted = [w \in Workers |-> TRUE]
  /\ tasks = [w \in Workers |-> <<>>]
  /\ compIdx = [w \in Workers |-> 0]
  /\ best = [w \in Workers |-> NewSolution]
  /\ lock = [w \in Workers |-> <<>>]
  /\ hist = [w \in Workers |-> {INF}]
  /\ staleRead = [w \in Workers |-> FALSE]
  /\ inv = [w \in Workers |-> <<>>]
  /\ localBestColors = [w \in Workers |-> 0]
  /\ localColoring = [w \in Workers |-> Unassigned(fullGraph.orig_n)]
  /\ globalBestColors = [w \in Workers |-> INF]
  /\ globalColoring = [w \in Workers |-> Unassigned(fullGraph.orig_n)]
  /\ report = NoReport
  /\ fault \in faults

\* a run that has passed the checks of main
InitWith(graphs, orders, sizes, threads, expiry) ==
  InitFrom(graphs, orders, sizes, threads, expiry, {NoFault}, TRUE)

\* no member function is called from outside main
NoOps == opGraph = NewGraph(0) /\ opLast = NoCall

\* Star30K1 is run by one process, which owns both of its components
Init ==
  /\ \/ InitWith(InputGraphs, Orders, 1..MaxW, 1..MaxThreads, BOOLEAN)
     \/ InitWith({Star30K1}, Orders, {1}, 1..MaxThreads, BOOLEAN)
  /\ NoOps

\* ------------------------------------------------------------------------
\* branchAndBound invocations (branch_and_bound.cpp, branchAndBound)
\* An invocation is identified by its path: <<i>> is the call main makes
\* for task or component i, Append(id, 0) / Append(id, 1) the merge / edge
\* child of id.  Its position pc is one of
\*   "pending"  an OpenMP task that no thread has started yet
\*   "gate"     at the time gate (line 63)
\*   "crit"     bounds computed and logged, before #pragma omp critical
\*   "write"    inside the critical section, numColors already stored
\*   "test"     after the critical section, before the pruning tests
\*   "wait"     inside the child calls / at the taskwait
\* lb, ub, coloring and childEdge are the locals of the call, set by lines
\* 68-69 and 107.  seen is the value of bestSolution.numColors when the call
\* left the critical section: a later unsynchronised read returns that or
\* any newer value.
\* ------------------------------------------------------------------------
NewFrame(g, depth, at) ==
  [g |-> g, depth |-> depth, pc |-> at, seen |-> INF,
   lb |-> 0, ub |-> 0, coloring |-> <<>>, childEdge |-> <<>>]

Running(w) ==
  {id \in DOMAIN inv[w] : inv[w][id].pc \in {"gate", "crit", "write", "test"}}

Restrict(f, S) == [x \in S |-> f[x]]

Parent(id) == SubSeq(id, 1, Len(id) - 1)

\* line 109
doParallel(g, depth) == g.n >= MIN_VERTICES_FOR_TASK /\ depth < MAX_TASK_DEPTH

\* lines 92-96: the DSATUR colouring lifted to the original vertices
Lift(g, coloring) ==
  [v \in 0..(g.orig_n - 1) |->
     LET S == {i \in 0..(g.n - 1) : v \in SeqToSet(g.mapping[i])}
     IN IF S = {} THEN -1 ELSE coloring[SetMax(S)]]

\* The invocation id returns.  In a sequential parent (lines 117-118) the
\* return of the merge child is followed by the call of the edge child and
\* the return of the edge child by the parent's own return; a parent at
\* the taskwait (line 115) returns once both child tasks have returned.
RECURSIVE Return(_, _)
Return(frames, id) ==
  LET rest == Restrict(frames, DOMAIN frames \ {id})
  IN IF Len(id) = 1 THEN rest
     ELSE LET par == Parent(id)
              k == id[Len(id)]
              pf == frames[par]
          IN IF doParallel(pf.g, pf.depth)
             THEN IF Append(par, 1 - k) \in DOMAIN rest THEN rest
                  ELSE Return(rest, par)
             ELSE IF k = 0
                  THEN rest @@ (Append(par, 1) :>
                          NewFrame(pf.childEdge, pf.depth + 1, "gate"))
                  ELSE Return(rest, par)

\* Branch with the parent's graph handed to the second child in place of
\* g.addEdge(v1, v2)
BranchSameGraph(frames, id) ==
  LET f == frames[id]
      pair == selectBranchingPair(f.g)
      childMerge == mergeVertices(f.g, pair[1], pair[2])
      childEdge == f.g
      cm == NewFrame(childMerge, f.depth + 1,
                     IF doParallel(f.g, f.depth) THEN "pending" ELSE "gate")
      ce == NewFrame(childEdge, f.depth + 1, "pending")
      waiting == [frames EXCEPT ![id].pc = "wait", ![id].childEdge = childEdge]
  IN IF doParallel(f.g, f.depth)
     THEN waiting @@ (Append(id, 0) :> cm) @@ (Append(id, 1) :> ce)
     ELSE waiting @@ (Append(id, 0) :> cm)

\* lines 106-119: both children are built, then spawned or called
Branch(frames, id) ==
  LET f == frames[id]
      pair == selectBranchingPair(f.g)
      childMerge == mergeVertices(f.g, pair[1], pair[2])
      childEdge == addEdge(f.g, pair[1], pair[2])
      cm == NewFrame(childMerge, f.depth + 1,
                     IF doParallel(f.g, f.depth) THEN "pending" ELSE "gate")
      ce == NewFrame(childEdge, f.depth + 1, "pending")
      waiting == [frames EXCEPT ![id].pc = "wait", ![id].childEdge = childEdge]
  IN IF doParallel(f.g, f.depth)
     THEN waiting @@ (Append(id, 0) :> cm) @@ (Append(id, 1) :> ce)
     ELSE waiting @@ (Append(id, 0) :> cm)

\* a thread of the team starts a pending task
Start(w, id) ==
  /\ id \in DOMAIN inv[w]
  /\ inv[w][id].pc = "pending"
  /\ Cardinality(Running(w)) < numThreads
  /\ inv' = [inv EXCEPT ![w][id].pc = "gate"]
  /\ UNCHANGED <<inputVars, opVars, pc, expired, searchCompleted, tasks, compIdx, best,
                 lock, hist, staleRead, localBestColors, localColoring, globalBestColors,
                 globalColoring, report>>

\* TimeGate without the return of line 65: the flag is cleared and the call
\* goes on to its bounds
TimeGateNoReturn(w, id, late) ==
  /\ searchCompleted' = [searchCompleted EXCEPT ![w] = @ /\ ~late]
  /\ LET clique == heuristicMaxClique(inv[w][id].g)
         col == heuristicColoring(inv[w][id].g)
     IN inv' = [inv EXCEPT ![w][id].pc = "crit",
                           ![w][id].lb = clique.size,
                           ![w][id].ub = col.k,
                           ![w][id].coloring = col.color]

\* lines 63-85 for a call whose read of the clock gives late =
\* (now - startTime >= timeLimit): the time gate, else the bounds and the
\* log line
TimeGate(w, id, late) ==
  IF late
  THEN /\ searchCompleted' = [searchCompleted EXCEPT ![w] = FALSE]
       /\ inv' = [inv EXCEPT ![w] = Return(inv[w], id)]
  ELSE /\ LET clique == heuristicMaxClique(inv[w][id].g)
              col == heuristicColoring(inv[w][id].g)
          IN inv' = [inv EXCEPT ![w][id].pc = "crit",
                                ![w][id].lb = clique.size,
                                ![w][id].ub = col.k,
                                ![w][id].coloring = col.color]
       /\ UNCHANGED searchCompleted

\* lines 63-85.  The clock is read at line 63; once a read of this process
\* has found the limit reached every later read finds it reached.
Enter(w, id) ==
  /\ id \in DOMAIN inv[w]
  /\ inv[w][id].pc = "gate"
  /\ \E late \in BOOLEAN :
       /\ expired[w] => late
       /\ late => canExpire
       /\ expired' = [expired EXCEPT ![w] = late]
       /\ TimeGate(w, id, late)
  /\ UNCHANGED <<inputVars, opVars, pc, tasks, compIdx, best, lock, hist, staleRead,
                 localBestColors, localColoring, globalBestColors,
                 globalColoring, report>>

\* CritEnter with <= for the < of line 90: an equal bound also updates
CritEnterOrEqual(w, id) ==
  /\ id \in DOMAIN inv[w]
  /\ inv[w][id].pc = "crit"
  /\ lock[w] = <<>>
  /\ LET ub == inv[w][id].ub
     IN IF ub <= best[w].numColors
        THEN /\ best' = [best EXCEPT ![w].numColors = ub]
             /\ hist' = [hist EXCEPT ![w] = @ \cup {ub}]
             /\ lock' = [lock EXCEPT ![w] = id]
             /\ inv' = [inv EXCEPT ![w][id].pc = "write"]
        ELSE /\ inv' = [inv EXCEPT ![w][id].pc = "test",
                                   ![w][id].seen = best[w].numColors]
             /\ UNCHANGED <<best, hist, lock>>
  /\ UNCHANGED <<inputVars, opVars, pc, expired, searchCompleted, tasks, compIdx,
                 staleRead, localBestColors, localColoring, globalBestColors,
                 globalColoring, report>>

\* CritEnter without the mutual exclusion of #pragma omp critical: a call
\* enters while another call is between its two stores
CritEnterNoLock(w, id) ==
  /\ id \in DOMAIN inv[w]
  /\ inv[w][id].pc = "crit"
  /\ LET ub == inv[w][id].ub
     IN IF ub < best[w].numColors
        THEN /\ best' = [best EXCEPT ![w].numColors = ub]
             /\ hist' = [hist EXCEPT ![w] = @ \cup {ub}]
             /\ lock' = [lock EXCEPT ![w] = id]
             /\ inv' = [inv EXCEPT ![w][id].pc = "write"]
        ELSE /\ inv' = [inv EXCEPT ![w][id].pc = "test",
                                   ![w][id].seen = best[w].numColors]
             /\ UNCHANGED <<best, hist, lock>>
  /\ UNCHANGED <<inputVars, opVars, pc, expired, searchCompleted, tasks, compIdx,
                 staleRead, localBestColors, localColoring, globalBestColors,
                 globalColoring, report>>

\* lines 88-91: enter the critical section, compare, store numColors
CritEnter(w, id) ==
  /\ id \in DOMAIN inv[w]
  /\ inv[w][id].pc = "crit"
  /\ lock[w] = <<>>
  /\ LET ub == inv[w][id].ub
     IN IF ub < best[w].numColors
        THEN /\ best' = [best EXCEPT ![w].numColors = ub]
             /\ hist' = [hist EXCEPT ![w] = @ \cup {ub}]
             /\ lock' = [lock EXCEPT ![w] = id]
             /\ inv' = [inv EXCEPT ![w][id].pc = "write"]
        ELSE /\ inv' = [inv EXCEPT ![w][id].pc = "test",
                                   ![w][id].seen = best[w].numColors]
             /\ UNCHANGED <<best, hist, lock>>
  /\ UNCHANGED <<inputVars, opVars, pc, expired, searchCompleted, tasks, compIdx, staleRead,
                 localBestColors, localColoring, globalBestColors,
                 globalColoring, report>>

\* lines 92-98: store the lifted colouring, leave the critical section
CritWrite(w, id) ==
  /\ id \in DOMAIN inv[w]
  /\ inv[w][id].pc = "write"
  /\ best' = [best EXCEPT ![w].coloring = Lift(inv[w][id].g, inv[w][id].coloring)]
  /\ lock' = [lock EXCEPT ![w] = <<>>]
  /\ inv' = [inv EXCEPT ![w][id].pc = "test",
                        ![w][id].seen = best[w].numColors]
  /\ UNCHANGED <<inputVars, opVars, pc, expired, searchCompleted, tasks, compIdx, hist, staleRead,
                 localBestColors, localColoring, globalBestColors,
                 globalColoring, report>>

\* Test with the pruning test of line 100 off by one: a node is cut as
\* soon as its lower bound comes within one colour of the incumbent
TestEager(w, id) ==
  /\ id \in DOMAIN inv[w]
  /\ inv[w][id].pc = "test"
  /\ LET f == inv[w][id]
     IN \E read \in {x \in hist[w] : best[w].numColors <= x /\ x <= f.seen} :
          /\ staleRead' = [staleRead EXCEPT ![w] = @ \/ read > best[w].numColors]
          /\ IF f.lb = f.ub \/ f.lb + 1 >= read
                \/ selectBranchingPair(f.g)[1] = -1
             THEN inv' = [inv EXCEPT ![w] = Return(inv[w], id)]
             ELSE inv' = [inv EXCEPT ![w] = Branch(inv[w], id)]
  /\ UNCHANGED <<inputVars, opVars, pc, expired, searchCompleted, tasks, compIdx, best,
                 lock, hist, localBestColors, localColoring, globalBestColors,
                 globalColoring, report>>

\* lines 99-119: the pruning tests (the read of bestSolution.numColors on
\* line 100 is outside the critical section), then the branching
Test(w, id) ==
  /\ id \in DOMAIN inv[w]
  /\ inv[w][id].pc = "test"
  /\ LET f == inv[w][id]
     IN \E read \in {x \in hist[w] : best[w].numColors <= x /\ x <= f.seen} :
          /\ staleRead' = [staleRead EXCEPT ![w] = @ \/ read > best[w].numColors]
          /\ IF f.lb = f.ub \/ f.lb >= read \/ selectBranchingPair(f.g)[1] = -1
             THEN inv' = [inv EXCEPT ![w] = Return(inv[w], id)]
             ELSE inv' = [inv EXCEPT ![w] = Branch(inv[w], id)]
  /\ UNCHANGED <<inputVars, opVars, pc, expired, searchCompleted, tasks, compIdx, best,
                 lock, hist, localBestColors, localColoring, globalBestColors,
                 globalColoring, report>>

\* ------------------------------------------------------------------------
\* main (main.cpp): single connected component, lines 162-210
\* ------------------------------------------------------------------------
\* lines 164-190 up to the task creation: decompose, then one OpenMP task
\* per owned entry of the task list
DecomposeOf(w, subG) ==
  /\ \E full \in {decomposeBnb(subG, 0, DecompDepth, NoTasks, INF)} :
        \E k \in 0..full.calls :
          /\ expired[w] => k = 0
          /\ ~canExpire => k = full.calls
          /\ LET built == TasksWithin(full.tasks, k)
                 ts == IF built = <<>> THEN <<subG>> ELSE built
                 mine == {i \in 0..(Len(ts) - 1) : i % mpiSize = w}
             IN /\ tasks' = [tasks EXCEPT ![w] = ts]
                /\ expired' = [expired EXCEPT ![w] = k < full.calls]
                /\ inv' = [inv EXCEPT ![w] =
                      [id \in {<<i>> : i \in mine} |->
                         NewFrame(ts[id[1] + 1], TaskStartDepth, "pending")]]
  /\ best' = [best EXCEPT ![w] = NewSolution]
  /\ hist' = [hist EXCEPT ![w] = {INF}]
  /\ staleRead' = [staleRead EXCEPT ![w] = FALSE]
  /\ pc' = [pc EXCEPT ![w] = "tasks"]
  /\ UNCHANGED <<inputVars, opVars, searchCompleted, compIdx, lock, localBestColors,
                 localColoring, globalBestColors, globalColoring, report>>

\* line 164 with the one component of a connected graph
Decompose(w) ==
  /\ pc[w] = "decomp"
  /\ Len(components) >= 1
  /\ DecomposeOf(w, extractSubgraph(fullGraph, components[1]))

\* line 164 when the graph has no vertex: the else branch of line 134 is
\* taken with components.size() = 0 and components[0] is read
ReadNoComponent(w) ==
  /\ pc[w] = "decomp"
  /\ Len(components) = 0
  /\ pc' = [pc EXCEPT ![w] = "oob"]
  /\ UNCHANGED <<inputVars, opVars, expired, searchCompleted, tasks, compIdx, best,
                 lock, hist, staleRead, inv, localBestColors, localColoring,
                 globalBestColors, globalColoring, report>>

\* the read of components[0] past the end of the vector is undefined: the
\* process is ended by the fault of the access ...
ComponentFault(w) ==
  /\ pc[w] = "oob"
  /\ pc' = [pc EXCEPT ![w] = "crashed"]
  /\ UNCHANGED <<inputVars, opVars, expired, searchCompleted, tasks, compIdx, best,
                 lock, hist, staleRead, inv, localBestColors, localColoring,
                 globalBestColors, globalColoring, report>>

\* ... or the memory read holds an empty vector and lines 164-190 go on with
\* the subgraph of no vertex
DecomposeJunk(w) ==
  /\ pc[w] = "oob"
  /\ DecomposeOf(w, extractSubgraph(fullGraph, <<>>))

\* lines 188-192: taskwait and the end of the parallel region
\* TasksJoin without the taskwait of line 188 and the barrier that ends the
\* parallel region: the process goes on while tasks are open
TasksJoinNoWait(w) ==
  /\ pc[w] = "tasks"
  /\ pc' = [pc EXCEPT ![w] = "ready"]
  /\ UNCHANGED <<inputVars, opVars, expired, searchCompleted, tasks, compIdx, best, lock,
                 hist, staleRead, inv, localBestColors, localColoring, globalBestColors,
                 globalColoring, report>>

TasksJoin(w) ==
  /\ pc[w] = "tasks"
  /\ DOMAIN inv[w] = {}
  /\ pc' = [pc EXCEPT ![w] = "ready"]
  /\ UNCHANGED <<inputVars, opVars, expired, searchCompleted, tasks, compIdx, best, lock,
                 hist, staleRead, inv, localBestColors, localColoring, globalBestColors,
                 globalColoring, report>>

\* AllreduceBcast with the MPI_MAX of the component path in line 194
AllreduceBcastMax ==
  /\ Len(components) <= 1
  /\ \A w \in Workers : pc[w] = "ready"
  /\ LET globalBestValue == SetMax({best[w].numColors : w \in Workers})
         rank == SetMin({w \in Workers : best[w].numColors = globalBestValue})
     IN /\ globalBestColors' = [w \in Workers |-> globalBestValue]
        /\ IF DOMAIN best[rank].coloring = 0..(fullGraph.orig_n - 1)
           THEN globalColoring' = [w \in Workers |-> best[rank].coloring]
           ELSE \E junk \in JunkVector(0..(fullGraph.orig_n - 1)) :
                  globalColoring' = [w \in Workers |->
                     IF w = rank THEN best[rank].coloring ELSE junk]
  /\ pc' = [w \in Workers |-> "after"]
  /\ UNCHANGED <<inputVars, opVars, expired, searchCompleted, tasks, compIdx, best, lock,
                 hist, staleRead, inv, localBestColors, localColoring, report>>

\* lines 192-212: MPI_Allreduce MIN, MPI_Allreduce MINLOC, MPI_Bcast from
\* the owner, MPI_Barrier.  An owner whose coloring vector is empty sends
\* orig_n ints read past the end of its buffer.
AllreduceBcast ==
  /\ Len(components) <= 1
  /\ \A w \in Workers : pc[w] = "ready"
  /\ LET globalBestValue == SetMin({best[w].numColors : w \in Workers})
         rank == SetMin({w \in Workers : best[w].numColors = globalBestValue})
     IN /\ globalBestColors' = [w \in Workers |-> globalBestValue]
        /\ IF DOMAIN best[rank].coloring = 0..(fullGraph.orig_n - 1)
           THEN globalColoring' = [w \in Workers |-> best[rank].coloring]
           ELSE \E junk \in JunkVector(0..(fullGraph.orig_n - 1)) :
                  globalColoring' = [w \in Workers |->
                     IF w = rank THEN best[rank].coloring ELSE junk]
  /\ pc' = [w \in Workers |-> "after"]
  /\ UNCHANGED <<inputVars, opVars, expired, searchCompleted, tasks, compIdx, best, lock,
                 hist, staleRead, inv, localBestColors, localColoring, report>>

\* ------------------------------------------------------------------------
\* main (main.cpp): several components, lines 134-161
\* ------------------------------------------------------------------------
\* indices i >= compIdx[w] of the loop of line 139 that rank w owns
Owned(w) ==
  {i \in compIdx[w]..(Len(components) - 1) : i % mpiSize = w}

\* lines 139-149: the next owned component, a fresh compBest, the call
CompBegin(w) ==
  /\ pc[w] = "loop"
  /\ Owned(w) # {}
  /\ LET i == SetMin(Owned(w))
         subG == extractSubgraph(fullGraph, components[i + 1])
     IN /\ compIdx' = [compIdx EXCEPT ![w] = i]
        /\ inv' = [inv EXCEPT ![w] = (<<i>> :> NewFrame(subG, 0, "gate"))]
  /\ best' = [best EXCEPT ![w] = NewSolution]
  /\ hist' = [hist EXCEPT ![w] = {INF}]
  /\ staleRead' = [staleRead EXCEPT ![w] = FALSE]
  /\ pc' = [pc EXCEPT ![w] = "solve"]
  /\ UNCHANGED <<inputVars, opVars, expired, searchCompleted, tasks, lock,
                 localBestColors, localColoring, globalBestColors,
                 globalColoring, report>>

\* lines 150-155: fold compBest into the local result; compBest.coloring[v]
\* reads past the end of an empty vector when the call left it untouched
CompEnd(w) ==
  /\ pc[w] = "solve"
  /\ DOMAIN inv[w] = {}
  /\ LET comp == SeqToSet(components[compIdx[w] + 1])
     IN \E junk \in JunkVector(comp) :
          /\ (DOMAIN best[w].coloring # {}) =>
                \A v \in comp : junk[v] = SetMin(Junk)
          /\ localColoring' = [localColoring EXCEPT ![w] =
                [v \in 0..(fullGraph.orig_n - 1) |->
                   IF v \in comp
                   THEN IF v \in DOMAIN best[w].coloring
                        THEN best[w].coloring[v] ELSE junk[v]
                   ELSE localColoring[w][v]]]
  /\ localBestColors' = [localBestColors EXCEPT ![w] = Max2(@, best[w].numColors)]
  /\ compIdx' = [compIdx EXCEPT ![w] = @ + 1]
  /\ pc' = [pc EXCEPT ![w] = "loop"]
  /\ UNCHANGED <<inputVars, opVars, expired, searchCompleted, tasks, best, lock, hist, staleRead,
                 inv, globalBestColors, globalColoring, report>>

\* line 139: the loop ends
LoopExit(w) ==
  /\ pc[w] = "loop"
  /\ Owned(w) = {}
  /\ pc' = [pc EXCEPT ![w] = "ready"]
  /\ UNCHANGED <<inputVars, opVars, expired, searchCompleted, tasks, compIdx, best, lock,
                 hist, staleRead, inv, localBestColors, localColoring, globalBestColors,
                 globalColoring, report>>

\* ReduceMax with the MPI_MIN of the single-component path in line 158
ReduceMin ==
  /\ Len(components) > 1
  /\ \A w \in Workers : pc[w] = "ready"
  /\ globalBestColors' = [globalBestColors EXCEPT
        ![0] = SetMin({localBestColors[w] : w \in Workers})]
  /\ globalColoring' = [globalColoring EXCEPT
        ![0] = [v \in 0..(fullGraph.orig_n - 1) |->
                  SetMax({localColoring[w][v] : w \in Workers})]]
  /\ pc' = [w \in Workers |-> "after"]
  /\ UNCHANGED <<inputVars, opVars, expired, searchCompleted, tasks, compIdx, best,
                 lock, hist, staleRead, inv, localBestColors, localColoring,
                 report>>

\* lines 158-160 and 212: the two MPI_Reduce MAX to rank 0, MPI_Barrier
ReduceMax ==
  /\ Len(components) > 1
  /\ \A w \in Workers : pc[w] = "ready"
  /\ globalBestColors' = [globalBestColors EXCEPT
        ![0] = SetMax({localBestColors[w] : w \in Workers})]
  /\ globalColoring' = [globalColoring EXCEPT
        ![0] = [v \in 0..(fullGraph.orig_n - 1) |->
                  SetMax({localColoring[w][v] : w \in Workers})]]
  /\ pc' = [w \in Workers |-> "after"]
  /\ UNCHANGED <<inputVars, opVars, expired, searchCompleted, tasks, compIdx, best, lock,
                 hist, staleRead, inv, localBestColors, localColoring, report>>

\* ------------------------------------------------------------------------
\* main (main.cpp): the report of rank 0, lines 218-262, and MPI_Finalize
\* ------------------------------------------------------------------------
WriteReport ==
  /\ pc[0] = "after"
  /\ fault.kind # "output"
  /\ \E junk \in JunkVector(0..(fullGraph.orig_n - 1)) :
       /\ (DOMAIN globalColoring[0] # {}) =>
             \A v \in 0..(fullGraph.orig_n - 1) : junk[v] = SetMin(Junk)
       /\ report' = [written |-> TRUE,
                     is_within_time_limit |-> searchCompleted[0],
                     number_of_colors |-> globalBestColors[0],
                     coloring |-> [v \in 0..(fullGraph.orig_n - 1) |->
                        IF v \in DOMAIN globalColoring[0]
                        THEN globalColoring[0][v] ELSE junk[v]]]
  /\ pc' = [pc EXCEPT ![0] = "done"]
  /\ UNCHANGED <<inputVars, opVars, expired, searchCompleted, tasks, compIdx, best, lock,
                 hist, staleRead, inv, localBestColors, localColoring, globalBestColors,
                 globalColoring>>

Finalize(w) ==
  /\ w # 0
  /\ pc[w] = "after"
  /\ pc' = [pc EXCEPT ![w] = "done"]
  /\ UNCHANGED <<inputVars, opVars, expired, searchCompleted, tasks, compIdx, best, lock,
                 hist, staleRead, inv, localBestColors, localColoring, globalBestColors,
                 globalColoring, report>>

Next ==
  \/ \E w \in Workers : Decompose(w)
  \/ \E w \in Workers : \E id \in DOMAIN inv[w] : Start(w, id)
  \/ \E w \in Workers : \E id \in DOMAIN inv[w] : Enter(w, id)
  \/ \E w \in Workers : \E id \in DOMAIN inv[w] : CritEnter(w, id)
  \/ \E w \in Workers : \E id \in DOMAIN inv[w] : CritWrite(w, id)
  \/ \E w \in Workers : \E id \in DOMAIN inv[w] : Test(w, id)
  \/ \E w \in Workers : TasksJoin(w)
  \/ AllreduceBcast
  \/ \E w \in Workers : CompBegin(w)
  \/ \E w \in Workers : CompEnd(w)
  \/ \E w \in Workers : LoopExit(w)
  \/ ReduceMax
  \/ WriteReport
  \/ \E w \in Workers : Finalize(w)

Spec == Init /\ [][Next]_vars

\* ------------------------------------------------------------------------
\* Runs on inputs with several components, with more processes than in Spec
\* so that a process can be left without a component.  branchAndBound is
\* called from the loop of line 139 by one thread of the team (omp single);
\* the collectives are those of lines 158-160.
\* ------------------------------------------------------------------------
MaxWMulti == 3

MultiGraphs ==
  {g \in InputGraphs \cup {Star30K1} :
     Len(findConnectedComponents(g, "asc")) > 1}

InitMulti == InitWith(MultiGraphs, Orders, 1..MaxWMulti, {1}, BOOLEAN) /\ NoOps

NextMulti ==
  \/ \E w \in Workers : \E id \in DOMAIN inv[w] : Start(w, id)
  \/ \E w \in Workers : \E id \in DOMAIN inv[w] : Enter(w, id)
  \/ \E w \in Workers : \E id \in DOMAIN inv[w] : CritEnter(w, id)
  \/ \E w \in Workers : \E id \in DOMAIN inv[w] : CritWrite(w, id)
  \/ \E w \in Workers : \E id \in DOMAIN inv[w] : Test(w, id)
  \/ \E w \in Workers : CompBegin(w)
  \/ \E w \in Workers : CompEnd(w)
  \/ \E w \in Workers : LoopExit(w)
  \/ ReduceMax
  \/ WriteReport
  \/ \E w \in Workers : Finalize(w)

SpecMulti == InitMulti /\ [][NextMulti]_vars

\* ------------------------------------------------------------------------
\* Runs whose time limit is never reached, every process and thread being
\* scheduled again and again: an enabled step is taken in the end
\* ------------------------------------------------------------------------
InitTerm == InitWith(InputGraphs, Orders, 1..MaxW, 1..MaxThreads, {FALSE}) /\ NoOps

\* a step of Next is possible exactly while a process has not left main
Busy == \E w \in Workers : pc[w] # "done"

\* weak fairness of Next, WF_vars(Next), with ENABLED <<Next>>_vars written
\* as the state predicate Busy
FairNext == []<>~Busy \/ []<><<Next>>_vars

SpecTerm == InitTerm /\ [][Next]_vars /\ FairNext

\* ------------------------------------------------------------------------
\* The member functions of Graph (graph.cpp) on their own: a Graph object
\* is read from a file and the functions are called on it in any order,
\* mergeVertices and addEdge replacing the object by their result, as the
\* children of a branching step replace their parent.
\* ------------------------------------------------------------------------
\* every graph on up to OpN vertices is read, the empty one included
OpN == 4

OpGraphs ==
  UNION {{readGraphFromCOLFile(n_, E) : E \in SUBSET Pairs(n_)} : n_ \in 0..OpN}

\* main is not run: one process waits with the smallest of the inputs.  The
\* object is contracted at most to one vertex by the caller.
InitOps ==
  /\ InitWith({readGraphFromCOLFile(1, {})}, {"asc"}, {1}, {1}, {FALSE})
  /\ opGraph \in OpGraphs
  /\ opLast = NoCall

\* Graph::mergeVertices(i, j), lines 48-94
OpMerge(i, j) ==
  /\ i \in 0..(opGraph.n - 1) /\ j \in 0..(opGraph.n - 1) /\ i # j
  /\ \E res \in {mergeVertices(opGraph, i, j)} :
       /\ opLast' = [op |-> "merge", i |-> i, j |-> j, arg |-> opGraph, res |-> res]
       /\ opGraph' = res
  /\ UNCHANGED mainVars

\* Graph::addEdge(i, j), lines 103-110.  The result of a call with i = j
\* is looked at and dropped: the pair a caller branches on is i < j, so
\* that no graph with a loop is passed on.
OpAddEdge(i, j) ==
  /\ i \in 0..(opGraph.n - 1) /\ j \in 0..(opGraph.n - 1)
  /\ \E res \in {addEdge(opGraph, i, j)} :
       /\ opLast' = [op |-> "addEdge", i |-> i, j |-> j, arg |-> opGraph, res |-> res]
       /\ opGraph' = IF i # j THEN res ELSE opGraph
  /\ UNCHANGED mainVars

\* Graph::heuristicMaxClique(), lines 233-242
OpMaxClique ==
  /\ opLast' = [op |-> "clique", arg |-> opGraph, res |-> heuristicMaxClique(opGraph)]
  /\ UNCHANGED <<mainVars, opGraph>>

\* Graph::heuristicColoring(), lines 179-225
OpColoring ==
  /\ opLast' = [op |-> "coloring", arg |-> opGraph, res |-> heuristicColoring(opGraph)]
  /\ UNCHANGED <<mainVars, opGraph>>

\* Graph::heuristicColoring() seen after `steps' passes of its loop over
\* step (lines 201-220): the vectors color and saturation at that point
OpColoringSteps(steps) ==
  /\ steps \in 0..opGraph.n
  /\ opLast' = [op |-> "dsatur", steps |-> steps, arg |-> opGraph,
                res |-> dsaturLoop(opGraph, 1, steps,
                          [color |-> [v \in 0..(opGraph.n - 1) |-> -1],
                           saturation |-> [v \in 0..(opGraph.n - 1) |-> 0]])]
  /\ UNCHANGED <<mainVars, opGraph>>

\* selectBranchingPair(g) of branch_and_bound.cpp, lines 31-49, on the
\* object
OpSelectPair ==
  /\ opLast' = [op |-> "pair", arg |-> opGraph, res |-> selectBranchingPair(opGraph)]
  /\ UNCHANGED <<mainVars, opGraph>>

NextOps ==
  \/ \E i, j \in 0..OpN : OpMerge(i, j)
  \/ \E i, j \in 0..OpN : OpAddEdge(i, j)
  \/ OpMaxClique
  \/ OpColoring
  \/ \E steps \in 0..(OpN + 1) : OpColoringSteps(steps)
  \/ OpSelectPair

SpecOps == InitOps /\ [][NextOps]_vars

\* ------------------------------------------------------------------------
\* Runs from the entry of main (main.cpp lines 92-127): the check of the
\* arguments, the files of the run, graphs down to the one of no vertex
\* ------------------------------------------------------------------------
MainW == 2
MainN == 2

\* what the environment refuses: the arguments (argc < 3), the input file,
\* the log file of one rank or (rank -1) of every rank, the output file
Faults ==
  {NoFault} \cup
  {[kind |-> k, rank |-> 0] : k \in {"args", "input", "output"}} \cup
  {[kind |-> "log", rank |-> r] : r \in -1..(MainW - 1)}

MainGraphs ==
  {readGraphFromCOLFile(n_, {}) : n_ \in 0..MainN} \cup
  {readGraphFromCOLFile(MainN, Pairs(MainN)), G7}

InitMain ==
  /\ InitFrom(MainGraphs, {"asc"}, 1..MainW, {1}, BOOLEAN, Faults, FALSE)
  /\ fault.rank < mpiSize
  /\ NoOps

\* lines 92-98: fewer than two arguments, MPI_Finalize and return 1
CheckArguments(w) ==
  /\ pc[w] = "args"
  /\ pc' = [pc EXCEPT ![w] = IF fault.kind = "args" THEN "exit1" ELSE "log"]
  /\ UNCHANGED <<inputVars, opVars, expired, searchCompleted, tasks, compIdx, best,
                 lock, hist, staleRead, inv, localBestColors, localColoring,
                 globalBestColors, globalColoring, report>>

\* lines 113-122: the log file of the rank; MPI_Finalize and return 1 when
\* it cannot be opened
OpenLog(w) ==
  /\ pc[w] = "log"
  /\ pc' = [pc EXCEPT ![w] =
        IF fault.kind = "log" /\ fault.rank \in {-1, w} THEN "exit1" ELSE "read"]
  /\ UNCHANGED <<inputVars, opVars, expired, searchCompleted, tasks, compIdx, best,
                 lock, hist, staleRead, inv, localBestColors, localColoring,
                 globalBestColors, globalColoring, report>>

\* lines 125-134 (graph.cpp lines 252-257): exit(1) when the input file
\* cannot be opened, without MPI_Finalize; else the graph and its
\* components are there and line 134 chooses the path
ReadGraph(w) ==
  /\ pc[w] = "read"
  /\ pc' = [pc EXCEPT ![w] =
        IF fault.kind = "input" THEN "abort1"
        ELSE IF Len(components) > 1 THEN "loop" ELSE "decomp"]
  /\ UNCHANGED <<inputVars, opVars, expired, searchCompleted, tasks, compIdx, best,
                 lock, hist, staleRead, inv, localBestColors, localColoring,
                 globalBestColors, globalColoring, report>>

\* lines 233-238: rank 0 cannot open the output file, MPI_Finalize and
\* return 1; nothing is written
WriteReportFails ==
  /\ pc[0] = "after"
  /\ fault.kind = "output"
  /\ pc' = [pc EXCEPT ![0] = "exit1"]
  /\ UNCHANGED <<inputVars, opVars, expired, searchCompleted, tasks, compIdx, best,
                 lock, hist, staleRead, inv, localBestColors, localColoring,
                 globalBestColors, globalColoring, report>>

NextMain ==
  \/ \E w \in Workers : CheckArguments(w)
  \/ \E w \in Workers : OpenLog(w)
  \/ \E w \in Workers : ReadGraph(w)
  \/ \E w \in Workers : ReadNoComponent(w)
  \/ \E w \in Workers : ComponentFault(w)
  \/ \E w \in Workers : DecomposeJunk(w)
  \/ WriteReportFails
  \/ Next

SpecMain == InitMain /\ [][NextMain]_vars

\* ------------------------------------------------------------------------
\* Reference notions the properties are stated with
\* ------------------------------------------------------------------------
\* the vertices 0..n_-1 can be coloured with k colours: backtracking over
\* the vertices in index order, col the colours of the vertices before
\* Len(col), a new colour opened only when the used ones do not fit
RECURSIVE ColorableFrom(_, _, _, _)
ColorableFrom(adj, n_, k, col) ==
  IF Len(col) = n_ THEN TRUE
  ELSE LET v == Len(col)
           used == SeqToSet(col)
           next == IF used = {} THEN 0 ELSE SetMax(used) + 1
       IN \E c \in 0..(IF next < k THEN next ELSE k - 1) :
            /\ \A u \in adj[v] : u < v => col[u + 1] # c
            /\ ColorableFrom(adj, n_, k, Append(col, c))

\* the chromatic number of the current graph of g
Chi(g) == SetMin({k \in 1..g.n : ColorableFrom(g.adj, g.n, k, <<>>)})

\* no read of the clock, in decomposeBnb or branchAndBound, on any process
\* has found the time limit reached
NoGate == \A w \in Workers : ~expired[w]

\* c assigns to every vertex of the input graph a colour in [0, k) and no
\* edge of the input graph joins two vertices of one colour
ProperColoring(c, k) ==
  /\ DOMAIN c = 0..(fullGraph.orig_n - 1)
  /\ \A v \in DOMAIN c : c[v] \in 0..(k - 1)
  /\ \A u \in DOMAIN c : \A v \in fullGraph.adj[u] : c[u] # c[v]

\* ------------------------------------------------------------------------
\* C1 (as stated): whatever the graph, the number of processes, the
\* interleaving and the time limit, the (num_colors, coloring) that rank 0
\* reports is a proper colouring of the input graph with every entry in
\* [0, num_colors).
\* ------------------------------------------------------------------------
C1_ReportedColoringProper ==
  report.written => ProperColoring(report.coloring, report.number_of_colors)

\* ------------------------------------------------------------------------
\* C2 (as stated): for a connected input, when no time gate is hit, the
\* number of colours reported by the single-component path (decompose to
\* depth 2, distribute, branch and bound each task, MIN-reduce) is the
\* chromatic number of the input graph.
\* ------------------------------------------------------------------------
C2_SingleComponentOptimal ==
  (report.written /\ Len(components) = 1 /\ NoGate)
     => report.number_of_colors = Chi(fullGraph)

\* ------------------------------------------------------------------------
\* C3: branchAndBound started on a graph with the incumbent bestSolution
\* at its sentinel, on a process where no read of the clock finds the limit
\* reached, ends with bestSolution.numColors equal to the chromatic number
\* of that graph.  In the component loop every call has a fresh compBest;
\* in the single-component path the calls of the tasks a process owns share
\* localBest, which ends at the least chromatic number of those tasks (INF
\* for a process that owns none).  The reads of line 100 may return a value
\* that a concurrent update has already lowered (Test).
\* ------------------------------------------------------------------------
OwnedTasks(w) == {i \in 0..(Len(tasks[w]) - 1) : i % mpiSize = w}

C3_BranchAndBoundOptimal ==
  \A w \in Workers :
    ~expired[w] =>
      /\ (pc[w] = "solve" /\ DOMAIN inv[w] = {}) =>
            best[w].numColors =
               Chi(extractSubgraph(fullGraph, components[compIdx[w] + 1]))
      /\ (pc[w] = "ready" /\ Len(components) = 1) =>
            best[w].numColors =
               IF OwnedTasks(w) = {} THEN INF
               ELSE SetMin({Chi(tasks[w][i + 1]) : i \in OwnedTasks(w)})

\* the call made on a component with a fresh compBest has returned with
\* all the tasks it spawned, no gate was hit, the incumbent was lowered
\* after its first value and a pruning test read a stale value
C3_Witness ==
  \E w \in Workers :
    /\ pc[w] = "solve"
    /\ DOMAIN inv[w] = {}
    /\ ~expired[w]
    /\ staleRead[w]
    /\ Cardinality(hist[w]) >= 3
    /\ best[w].numColors =
          Chi(extractSubgraph(fullGraph, components[compIdx[w] + 1]))

\* ------------------------------------------------------------------------
\* C4: for an input with two or more components, any number of processes
\* (also more processes than components) and no time gate hit, the number
\* of colours reported is the largest chromatic number of a component.
\* ------------------------------------------------------------------------
ComponentGraphs ==
  {extractSubgraph(fullGraph, components[i]) : i \in 1..Len(components)}

C4_MultiComponentMax ==
  (report.written /\ Len(components) > 1 /\ NoGate)
     => report.number_of_colors = SetMax({Chi(g) : g \in ComponentGraphs})

\* the report for the 5-cycle and a disjoint edge, written with more
\* processes than components and no gate hit
C4_Witness ==
  /\ report.written
  /\ NoGate
  /\ fullGraph = C5K2
  /\ mpiSize > Len(components)
  /\ report.number_of_colors = 3

\* ------------------------------------------------------------------------
\* C5: when no time gate is hit the number of colours reported is fixed by
\* the input alone: it is the same for every number of processes, every
\* number of threads and every schedule of the tasks.  ExpectedColors is
\* computed from the input graph and its component list only.
\* ------------------------------------------------------------------------
ExpectedColors ==
  IF Len(components) > 1
  THEN SetMax({Chi(g) : g \in ComponentGraphs})
  ELSE LET subG == extractSubgraph(fullGraph, components[1])
           full == decomposeBnb(subG, 0, DecompDepth, NoTasks, INF)
           built == TasksWithin(full.tasks, full.calls)
           ts == IF built = <<>> THEN <<subG>> ELSE built
       IN SetMin({Chi(ts[i]) : i \in 1..Len(ts)})

C5_SameForAllWorkersAndSchedules ==
  (report.written /\ NoGate) => report.number_of_colors = ExpectedColors

\* the report for G7 written by a run with the most processes and threads
C5_Witness ==
  /\ report.written
  /\ NoGate
  /\ fullGraph = G7
  /\ mpiSize = MaxW
  /\ numThreads = MaxThreads
  /\ report.number_of_colors = 3

\* ------------------------------------------------------------------------
\* C6: bestSolution.numColors of a process never increases: the step in
\* which a call enters the critical section and updates lowers it strictly
\* and every other step leaves it as it is.  The steps of main that
\* construct a new ColoringSolution (compBest of line 143, localBest of
\* line 175) start another object and are not steps of this one.
\* ------------------------------------------------------------------------
C6_NeverIncreases ==
  [][\A w \in Workers :
       pc[w] \notin {"decomp", "loop"} =>
         IF lock[w] = <<>> /\ lock'[w] # <<>>
         THEN best'[w].numColors < best[w].numColors
         ELSE best'[w].numColors = best[w].numColors]_vars

\* the incumbent of a process has been lowered twice, by calls of a team
\* of two or more threads
C6_Witness ==
  \E w \in Workers :
    /\ Cardinality(hist[w]) >= 3
    /\ best[w].numColors = SetMin(hist[w])
    /\ numThreads >= 2

\* ------------------------------------------------------------------------
\* C7: whenever no call is inside the critical section and
\* bestSolution.numColors is not the sentinel, bestSolution.coloring has
\* orig_n entries, every assigned entry lies in [0, numColors), exactly
\* numColors colours are used and no edge of the input graph joins two
\* assigned vertices of one colour.
\* ------------------------------------------------------------------------
Consistent(sol) ==
  LET assigned == {v \in DOMAIN sol.coloring : sol.coloring[v] # -1}
  IN /\ DOMAIN sol.coloring = 0..(fullGraph.orig_n - 1)
     /\ \A v \in assigned : sol.coloring[v] \in 0..(sol.numColors - 1)
     /\ Cardinality({sol.coloring[v] : v \in assigned}) = sol.numColors
     /\ \A u \in assigned : \A v \in fullGraph.adj[u] \cap assigned :
          sol.coloring[u] # sol.coloring[v]

C7_IncumbentConsistent ==
  \A w \in Workers :
    (lock[w] = <<>> /\ best[w].numColors # INF) => Consistent(best[w])

\* the critical section is free after two updates of the incumbent while
\* a spawned child task of the same team is about to enter it
C7_Witness ==
  \E w \in Workers :
    /\ lock[w] = <<>>
    /\ Cardinality(hist[w]) >= 3
    /\ best[w].numColors = SetMin(hist[w])
    /\ \E id \in DOMAIN inv[w] : Len(id) >= 2 /\ inv[w][id].pc = "crit"

\* ------------------------------------------------------------------------
\* Graph values that reach decomposeBnb or branchAndBound on process w: the
\* graphs decomposeBnb is about to be called on, the tasks it emitted and
\* the graphs of the calls of branchAndBound in progress or pending
\* ------------------------------------------------------------------------
GraphsReaching(w) ==
  {inv[w][id].g : id \in DOMAIN inv[w]}
    \cup SeqToSet(tasks[w])
    \cup (IF pc[w] = "decomp"
          THEN SeqToSet(decomposeBnb(extractSubgraph(fullGraph, components[1]),
                                     0, DecompDepth, NoTasks, INF).nodes)
          ELSE {})

\* the component of the input that process w is solving
CurrentComponent(w) ==
  IF Len(components) > 1 THEN components[compIdx[w] + 1] ELSE components[1]

RECURSIVE MappingTotal(_, _)
MappingTotal(g, i) ==
  IF i >= g.n THEN 0 ELSE Len(g.mapping[i]) + MappingTotal(g, i + 1)

\* adjacency symmetric and loop-free, n <= orig_n, every mapping set
\* non-empty, the mapping sets pairwise disjoint
Structural(g) ==
  /\ \A u \in 0..(g.n - 1) : \A v \in g.adj[u] : v \in 0..(g.n - 1) /\ u \in g.adj[v]
  /\ \A u \in 0..(g.n - 1) : u \notin g.adj[u]
  /\ g.n <= g.orig_n
  /\ \A i \in 0..(g.n - 1) : g.mapping[i] # <<>>
  /\ \A i, j \in 0..(g.n - 1) :
       i # j => SeqToSet(g.mapping[i]) \cap SeqToSet(g.mapping[j]) = {}

\* ------------------------------------------------------------------------
\* C8 (as stated): every Graph that reaches branchAndBound or decomposeBnb
\* has symmetric loop-free adjacency, n <= orig_n, non-empty pairwise
\* disjoint mapping sets and sum(|mapping[i]|) = orig_n.
\* ------------------------------------------------------------------------
C8_GraphInvariants ==
  \A w \in Workers : \A g \in GraphsReaching(w) :
    Structural(g) /\ MappingTotal(g, 0) = g.orig_n

\* ------------------------------------------------------------------------
\* C8 (amended): every Graph that reaches branchAndBound or decomposeBnb
\* has symmetric loop-free adjacency, n <= orig_n and non-empty pairwise
\* disjoint mapping sets that partition the vertices of the component being
\* solved: sum(|mapping[i]|) is the size of that component, which is orig_n
\* only when the input graph is connected.
\* ------------------------------------------------------------------------
C8_GraphInvariantsPerComponent ==
  \A w \in Workers : \A g \in GraphsReaching(w) :
    /\ Structural(g)
    /\ UNION {SeqToSet(g.mapping[i]) : i \in 0..(g.n - 1)}
          = SeqToSet(CurrentComponent(w))
    /\ MappingTotal(g, 0) = Len(CurrentComponent(w))
    /\ (Len(components) = 1 => MappingTotal(g, 0) = g.orig_n)

\* a merge child is being solved for a component of a disconnected input
C8_Witness ==
  \E w \in Workers : \E id \in DOMAIN inv[w] :
    /\ Len(components) > 1
    /\ Len(id) >= 2
    /\ inv[w][id].g.n < Len(CurrentComponent(w))
    /\ MappingTotal(inv[w][id].g, 0) < inv[w][id].g.orig_n

\* ------------------------------------------------------------------------
\* C9: a call of branchAndBound whose read of the clock at entry finds the
\* time limit reached sets searchCompleted to false and returns: it leaves
\* bestSolution (numColors and coloring) as it is, computes no bounds and
\* has no child call or task.
\* ------------------------------------------------------------------------
C9_GateExit ==
  [][\A w \in Workers : \A id \in DOMAIN inv[w] :
       (/\ inv[w][id].pc = "gate"
        /\ expired'[w]
        /\ (id \notin DOMAIN inv'[w] \/ inv'[w][id] # inv[w][id]))
         => /\ searchCompleted'[w] = FALSE
            /\ best'[w] = best[w]
            /\ hist'[w] = hist[w]
            /\ id \notin DOMAIN inv'[w]
            /\ Append(id, 0) \notin DOMAIN inv'[w]
            /\ Append(id, 1) \notin DOMAIN inv'[w]]_vars

\* a call has left through the gate on a process whose incumbent was
\* already set, and every call of the process has returned
C9_Witness ==
  \E w \in Workers :
    /\ expired[w]
    /\ ~searchCompleted[w]
    /\ best[w].numColors # INF
    /\ DOMAIN inv[w] = {}
    /\ pc[w] \in {"tasks", "solve"}

\* ------------------------------------------------------------------------
\* C10 (as stated): if a call of branchAndBound on any process left through
\* the time gate, the report written by rank 0 carries
\* is_within_time_limit = false.
\* ------------------------------------------------------------------------
C10_ReportTellsGateExit ==
  (report.written /\ \E w \in Workers : ~searchCompleted[w])
     => report.is_within_time_limit = FALSE

\* ------------------------------------------------------------------------
\* Notions for the member functions
\* ------------------------------------------------------------------------
\* the vertex of G that slot a of merge(i, j) stands for: slot j is removed
\* and the others keep their order
Survivor(a, j) == IF a < j THEN a ELSE a + 1

\* the slot of merge(i, j) that holds the merged vertex
MergedSlot(i, j) == IF i < j THEN i ELSE i - 1

\* the edges of a graph, a loop counted as an edge
Edges(g) ==
  {{p[1], p[2]} : p \in {q \in (0..(g.n - 1)) \X (0..(g.n - 1)) :
                           q[2] \in g.adj[q[1]]}}

\* the super-vertices, as sets of original vertices
Partition(g) == {SeqToSet(g.mapping[a]) : a \in 0..(g.n - 1)}

\* the pairs of original vertices that lie in adjacent super-vertices
OriginalAdjacency(g) ==
  UNION {SeqToSet(g.mapping[p[1]]) \X SeqToSet(g.mapping[p[2]]) :
           p \in {q \in (0..(g.n - 1)) \X (0..(g.n - 1)) : q[2] \in g.adj[q[1]]}}

\* ------------------------------------------------------------------------
\* C13: for distinct i, j in [0, G.n), merge(i, j) has G.n - 1 vertices and
\* the orig_n of G; slot j is removed and the other vertices keep their
\* order; the slot of i stands for the originals of i and of j, every other
\* slot for the originals it stood for; sum |mapping| is unchanged.
\* ------------------------------------------------------------------------
C13_MergeShape ==
  opLast.op = "merge" =>
    LET G == opLast.arg
        H == opLast.res
        i == opLast.i
        j == opLast.j
    IN /\ H.n = G.n - 1
       /\ H.orig_n = G.orig_n
       /\ DOMAIN H.mapping = 0..(H.n - 1)
       /\ DOMAIN H.adj = 0..(H.n - 1)
       /\ Survivor(MergedSlot(i, j), j) = i
       /\ \A a \in 0..(H.n - 1) :
            IF a = MergedSlot(i, j)
            THEN /\ SeqToSet(H.mapping[a]) =
                      SeqToSet(G.mapping[i]) \cup SeqToSet(G.mapping[j])
                 /\ Len(H.mapping[a]) = Len(G.mapping[i]) + Len(G.mapping[j])
            ELSE H.mapping[a] = G.mapping[Survivor(a, j)]
       /\ MappingTotal(H, 0) = MappingTotal(G, 0)

\* a vertex that stands for several originals was merged into a vertex of
\* higher index, in a graph with a further vertex
C13_Witness ==
  /\ opLast.op = "merge"
  /\ opLast.j < opLast.i
  /\ Len(opLast.arg.mapping[opLast.j]) > 1
  /\ opLast.res.n >= 2

\* ------------------------------------------------------------------------
\* C14: for distinct i, j in [0, G.n), adjacent or not, the adjacency of
\* merge(i, j) is symmetric and loop-free; two surviving vertices other
\* than the merged one are adjacent iff they were in G; the merged vertex
\* is adjacent to a surviving vertex w iff w was adjacent in G to i or j.
\* ------------------------------------------------------------------------
C14_MergeAdjacency ==
  opLast.op = "merge" =>
    LET G == opLast.arg
        H == opLast.res
        i == opLast.i
        j == opLast.j
        m == MergedSlot(i, j)
        V == 0..(H.n - 1)
    IN /\ \A a \in V : H.adj[a] \subseteq V /\ a \notin H.adj[a]
       /\ \A a, b \in V : b \in H.adj[a] <=> a \in H.adj[b]
       /\ \A a, b \in V \ {m} :
            a # b => (b \in H.adj[a] <=> Survivor(b, j) \in G.adj[Survivor(a, j)])
       /\ \A b \in V \ {m} :
            b \in H.adj[m] <=> (Survivor(b, j) \in G.adj[i] \/ Survivor(b, j) \in G.adj[j])

\* two adjacent vertices were merged, a third vertex was adjacent to the
\* absorbed one only, and a fourth to neither
C14_Witness ==
  /\ opLast.op = "merge"
  /\ opLast.j \in opLast.arg.adj[opLast.i]
  /\ \E w \in 0..(opLast.arg.n - 1) \ {opLast.i, opLast.j} :
       w \in opLast.arg.adj[opLast.j] /\ w \notin opLast.arg.adj[opLast.i]
  /\ \E b \in 0..(opLast.res.n - 1) :
       b # MergedSlot(opLast.i, opLast.j)
         /\ b \notin opLast.res.adj[MergedSlot(opLast.i, opLast.j)]

\* ------------------------------------------------------------------------
\* C15: for distinct i, j, merge(G, i, j) and merge(G, j, i) partition the
\* original vertices into the same super-vertices, and two original
\* vertices lie in adjacent super-vertices of one iff they do in the other.
\* ------------------------------------------------------------------------
C15_MergeCommutes ==
  opLast.op = "merge" =>
    LET other == mergeVertices(opLast.arg, opLast.j, opLast.i)
    IN /\ Partition(opLast.res) = Partition(other)
       /\ OriginalAdjacency(opLast.res) = OriginalAdjacency(other)

\* the two orders of the arguments give different Graph objects
C15_Witness ==
  /\ opLast.op = "merge"
  /\ opLast.res # mergeVertices(opLast.arg, opLast.j, opLast.i)
  /\ opLast.res.adj # mergeVertices(opLast.arg, opLast.j, opLast.i).adj
  /\ OriginalAdjacency(opLast.res) # {}

\* ------------------------------------------------------------------------
\* C16: for i, j in [0, G.n), addEdge(i, j) equals G in n, orig_n, mapping
\* and every adjacency but that of i and j, which gain j and i; |E| grows
\* by 0 or 1; addEdge(i, j) applied to the result changes nothing.
\* ------------------------------------------------------------------------
C16_AddEdge ==
  opLast.op = "addEdge" =>
    LET G == opLast.arg
        H == opLast.res
        i == opLast.i
        j == opLast.j
    IN /\ H.n = G.n /\ H.orig_n = G.orig_n /\ H.mapping = G.mapping
       /\ DOMAIN H.adj = DOMAIN G.adj
       /\ \A v \in 0..(G.n - 1) :
            H.adj[v] = G.adj[v] \cup (IF v = i THEN {j} ELSE {})
                                \cup (IF v = j THEN {i} ELSE {})
       /\ Edges(H) = Edges(G) \cup {{i, j}}
       /\ Cardinality(Edges(H)) - Cardinality(Edges(G)) \in {0, 1}
       /\ addEdge(H, i, j) = H

\* an edge was added between two distinct non-adjacent vertices of a graph
\* that had an edge already
C16_Witness ==
  /\ opLast.op = "addEdge"
  /\ opLast.i # opLast.j
  /\ opLast.j \notin opLast.arg.adj[opLast.i]
  /\ Edges(opLast.arg) # {}
  /\ Cardinality(Edges(opLast.res)) = Cardinality(Edges(opLast.arg)) + 1

\* S is a set of pairwise adjacent vertices of g
IsClique(g, S) == \A u, v \in S : u # v => v \in g.adj[u]

\* ------------------------------------------------------------------------
\* C17: heuristicMaxClique returns (size, C) with C a sequence of size
\* distinct, pairwise adjacent vertices of G, and no clique of G has more
\* than size vertices; the empty graph gives size 0.
\* ------------------------------------------------------------------------
C17_MaxClique ==
  opLast.op = "clique" =>
    LET G == opLast.arg
        C == opLast.res.clique
        size == opLast.res.size
    IN /\ Len(C) = size
       /\ Cardinality(SeqToSet(C)) = size
       /\ SeqToSet(C) \subseteq 0..(G.n - 1)
       /\ IsClique(G, SeqToSet(C))
       /\ \A S \in SUBSET (0..(G.n - 1)) : IsClique(G, S) => Cardinality(S) <= size
       /\ (G.n = 0 => size = 0)

\* a graph of four vertices that is not complete and has a triangle
C17_Witness ==
  /\ opLast.op = "clique"
  /\ opLast.arg.n = 4
  /\ opLast.res.size = 3
  /\ 3 \in SeqToSet(opLast.res.clique)

\* ------------------------------------------------------------------------
\* C18: heuristicColoring returns (k, colors) with a colour in [0, k) for
\* every vertex, different colours on adjacent vertices, k = max(colors) + 1
\* (0 when n = 0) and k <= n.
\* ------------------------------------------------------------------------
C18_HeuristicColoring ==
  opLast.op = "coloring" =>
    LET G == opLast.arg
        k == opLast.res.k
        colors == opLast.res.color
        V == 0..(G.n - 1)
    IN /\ DOMAIN colors = V
       /\ \A v \in V : colors[v] \in 0..(k - 1)
       /\ \A u \in V : \A v \in G.adj[u] : colors[u] # colors[v]
       /\ k = (IF G.n = 0 THEN 0 ELSE SetMax({colors[v] : v \in V}) + 1)
       /\ k <= G.n

\* a graph that needs three colours and is not complete
C18_Witness ==
  /\ opLast.op = "coloring"
  /\ opLast.arg.n = 4
  /\ opLast.res.k = 3
  /\ \E u, v \in 0..3 : u # v /\ opLast.res.color[u] = opLast.res.color[v]

\* ------------------------------------------------------------------------
\* C20 (as stated): after every pass of the loop of heuristicColoring, the
\* saturation of every uncoloured vertex w is the number of distinct
\* colours on the coloured neighbours of w.
\* ------------------------------------------------------------------------
C20_SaturationCountsColours ==
  opLast.op = "dsatur" =>
    \A w \in 0..(opLast.arg.n - 1) :
      opLast.res.color[w] = -1 =>
        opLast.res.saturation[w] =
          Cardinality({opLast.res.color[x] :
                         x \in {y \in opLast.arg.adj[w] : opLast.res.color[y] # -1}})

\* ------------------------------------------------------------------------
\* The run as a whole: the graph of no vertex, the collectives, the usage
\* errors (SpecMain)
\* ------------------------------------------------------------------------
\* how a process has ended: "done" is MPI_Finalize and return 0, "exit1" is
\* MPI_Finalize and return 1, "abort1" is exit(1) with no MPI_Finalize,
\* "crashed" is the fault of an access
Ended == {"done", "exit1", "abort1", "crashed"}
EndedBeforeCollectives == {"exit1", "abort1", "crashed"}

\* C11 (as stated): on a graph of no vertex no process reads a component
\* that does not exist or is ended by such a read, and a report that is
\* written has num_colors = 0 and an empty coloring
C11_EmptyGraph ==
  fullGraph.n = 0 =>
    /\ \A w \in Workers : pc[w] \notin {"oob", "crashed"}
    /\ report.written =>
          report.number_of_colors = 0 /\ DOMAIN report.coloring = {}

\* C12 (as stated): no process waits at the collectives of lines 158-212
\* while another process has left the run without entering them
C12_SameCollectives ==
  \A w, v \in Workers :
    pc[w] = "ready" => pc[v] \notin EndedBeforeCollectives

\* C19 (as stated): on a usage error every process that has ended has
\* called MPI_Finalize and returned a non-zero code, and nothing is
\* written to the output file
C19_UsageErrors ==
  fault.kind # "none" =>
    /\ \A w \in Workers : pc[w] \in Ended => pc[w] = "exit1"
    /\ ~report.written

\* ------------------------------------------------------------------------
\* The order of DSATUR (SpecOps)
\* ------------------------------------------------------------------------
\* the number of distinct colours on the coloured neighbours of w
DistinctColours(g, color, w) ==
  Cardinality({color[x] : x \in {y \in g.adj[w] : color[y] # -1}})

\* u comes before v in the order of the rule: more distinct colours around
\* it, then the higher degree, then the lower index
ComesBefore(g, color, u, v) ==
  LET su == DistinctColours(g, color, u)
      sv == DistinctColours(g, color, v)
      du == Cardinality(g.adj[u])
      dv == Cardinality(g.adj[v])
  IN \/ su > sv
     \/ su = sv /\ du > dv
     \/ su = sv /\ du = dv /\ u < v

\* C21 (as stated): the vertex the next pass of the loop of
\* heuristicColoring colours is the uncoloured vertex with the most
\* distinct colours among its coloured neighbours, of the highest degree
\* among these and of the lowest index among those, and the colour it gets
\* is the smallest one no coloured neighbour has.
C21_PicksMostSaturated ==
  opLast.op = "dsatur" =>
    LET g == opLast.arg
        before == opLast.res.color
        after == dsaturStep(g, opLast.res).color
        uncoloured == {v \in 0..(g.n - 1) : before[v] = -1}
    IN \A v \in uncoloured :
         after[v] # -1 =>
           /\ \A u \in uncoloured \ {v} : ComesBefore(g, before, v, u)
           /\ after[v] \notin {before[x] : x \in g.adj[v]}
           /\ \A c \in 0..(after[v] - 1) : c \in {before[x] : x \in g.adj[v]}

\* ------------------------------------------------------------------------
\* The branching pair (SpecOps)
\* ------------------------------------------------------------------------
NonAdjacentPairs(g) == {p \in Pairs(g.n) : p[2] \notin g.adj[p[1]]}

PairScore(g, p) == Cardinality(g.adj[p[1]]) + Cardinality(g.adj[p[2]])

LexLeq(p, q) == p[1] < q[1] \/ (p[1] = q[1] /\ p[2] <= q[2])

\* C22: selectBranchingPair gives (-1, -1) exactly when no two distinct
\* vertices are non-adjacent; otherwise it gives a pair v1 < v2 of
\* non-adjacent vertices whose degree sum no non-adjacent pair exceeds, the
\* lexicographically smallest of the pairs with that sum.
C22_BranchingPair ==
  opLast.op = "pair" =>
    LET g == opLast.arg
        res == opLast.res
    IN IF NonAdjacentPairs(g) = {}
       THEN res = <<-1, -1>>
       ELSE /\ res \in NonAdjacentPairs(g)
            /\ res[1] < res[2]
            /\ \A q \in NonAdjacentPairs(g) :
                  \/ PairScore(g, q) < PairScore(g, res)
                  \/ PairScore(g, q) = PairScore(g, res) /\ LexLeq(res, q)

\* a call where several pairs have the largest degree sum and a pair of a
\* smaller sum comes before the pair returned
C22_Witness ==
  /\ opLast.op = "pair"
  /\ opLast.res # <<-1, -1>>
  /\ \E q \in NonAdjacentPairs(opLast.arg) :
       q # opLast.res /\ PairScore(opLast.arg, q) = PairScore(opLast.arg, opLast.res)
  /\ \E q \in NonAdjacentPairs(opLast.arg) :
       /\ LexLeq(q, opLast.res)
       /\ PairScore(opLast.arg, q) < PairScore(opLast.arg, opLast.res)

\* ------------------------------------------------------------------------
\* The reductions over the processes (Spec, SpecMulti)
\* ------------------------------------------------------------------------
\* the collectives of the path are over
AfterCollectives == \A w \in Workers : pc[w] \in {"after", "done"}

\* the lowest rank whose local best has the smallest number of colours
MinlocRank ==
  LET m == SetMin({best[w].numColors : w \in Workers})
  IN SetMin({w \in Workers : best[w].numColors = m})

\* C23 (as stated): in the single-component path, after the broadcast every
\* process holds the global minimum of the local num_colors and the local
\* best coloring of the lowest rank that has this minimum; the coloring
\* has orig_n entries and uses exactly that many colours; a process that
\* owns no task holds the sentinel and is not the one chosen while another
\* process has a solution.
C23_BroadcastOwner ==
  (Len(components) <= 1 /\ AfterCollectives) =>
    /\ \A w \in Workers :
         /\ globalBestColors[w] = best[MinlocRank].numColors
         /\ globalColoring[w] = best[MinlocRank].coloring
         /\ DOMAIN globalColoring[w] = 0..(fullGraph.orig_n - 1)
         /\ Cardinality({globalColoring[w][v] : v \in DOMAIN globalColoring[w]})
               = globalBestColors[w]
    /\ \A w \in Workers :
         OwnedTasks(w) = {} =>
           /\ best[w] = NewSolution
           /\ (\E u \in Workers : best[u].numColors < INF) => MinlocRank # w

\* the loop over the components is over on every process
AfterComponents == \A w \in Workers : pc[w] \in {"ready", "after", "done"}

\* C24 (as stated): in the multi-component path, once the loop over the
\* components is over, every original vertex has a non-negative colour in
\* the local coloring of the process that owns its component (component i
\* belongs to rank i mod W) and -1 in the local coloring of every other
\* process, and after the reduction rank 0 holds the owner's colour for
\* the vertex.
C24_ComponentOwner ==
  (Len(components) > 1 /\ AfterComponents) =>
    \A i \in 0..(Len(components) - 1) :
      \A v \in SeqToSet(components[i + 1]) :
        /\ localColoring[i % mpiSize][v] >= 0
        /\ \A w \in Workers \ {i % mpiSize} : localColoring[w][v] = -1
        /\ pc[0] \in {"after", "done"} =>
              globalColoring[0][v] = localColoring[i % mpiSize][v]

\* ------------------------------------------------------------------------
\* Termination of the search (SpecTerm)
\* ------------------------------------------------------------------------
NonAdjacentCount(g) == Cardinality(NonAdjacentPairs(g))

\* every invocation of the process has returned
AllReturned(w) == pc[w] \in {"ready", "after", "done"} /\ DOMAIN inv[w] = {}

\* a child has fewer non-adjacent pairs than the node that waits for it,
\* and a node that has branched has a non-adjacent pair
FewerPairsBelow ==
  \A w \in Workers : \A id \in DOMAIN inv[w] :
    /\ inv[w][id].pc = "wait" => NonAdjacentPairs(inv[w][id].g) # {}
    /\ (Len(id) > 1 /\ Parent(id) \in DOMAIN inv[w]) =>
          NonAdjacentCount(inv[w][id].g) < NonAdjacentCount(inv[w][Parent(id)].g)

\* C25: when the time limit is never reached, each child of a branching
\* node has strictly fewer non-adjacent pairs than the node, a node with no
\* non-adjacent pair does not branch, and every branchAndBound invocation
\* of every process returns in the end.
C25_SearchTerminates ==
  /\ []FewerPairsBelow
  /\ <>(\A w \in Workers : AllReturned(w))

\* the second child of a branching node, the one with the added edge, at
\* its pruning tests while the node waits for it, the time limit never
\* being reached
C25_Witness ==
  /\ ~canExpire
  /\ \E w \in Workers : \E id \in DOMAIN inv[w] :
       /\ Len(id) >= 2
       /\ id[Len(id)] = 1
       /\ Parent(id) \in DOMAIN inv[w]
       /\ inv[w][Parent(id)].pc = "wait"
       /\ inv[w][id].pc = "test"
       /\ NonAdjacentCount(inv[w][id].g) > 0

\* ------------------------------------------------------------------------
\* The join points (Spec)
\* ------------------------------------------------------------------------
Children(w, id) == {c \in DOMAIN inv[w] : Len(c) = Len(id) + 1 /\ Parent(c) = id}

\* a process past its search has no open invocation; an invocation below a
\* branching node has that node waiting for it; a waiting node has a child
\* that has not returned
JoinsHold ==
  \A w \in Workers :
    /\ pc[w] \in {"ready", "after", "done"} => DOMAIN inv[w] = {}
    /\ \A id \in DOMAIN inv[w] :
         /\ Len(id) > 1 =>
               Parent(id) \in DOMAIN inv[w] /\ inv[w][Parent(id)].pc = "wait"
         /\ inv[w][id].pc = "wait" => Children(w, id) # {}

\* a waiting node is gone only in the step in which its last child returns:
\* no invocation below it is left, and when the children are called one
\* after the other (lines 117-118) that child is the second one
ReturnsAfterChildren ==
  \A w \in Workers : \A id \in DOMAIN inv[w] :
    (inv[w][id].pc = "wait" /\ id \notin DOMAIN inv'[w]) =>
      /\ Cardinality(Children(w, id)) = 1
      /\ \A c \in DOMAIN inv'[w] : ~(Len(c) > Len(id) /\ SubSeq(c, 1, Len(id)) = id)
      /\ ~doParallel(inv[w][id].g, inv[w][id].depth) =>
            Children(w, id) = {Append(id, 1)}

\* C26: the local best of a process is read for the reduction over the
\* processes only when every branchAndBound invocation of the process, the
\* children at every depth included, has returned, and a branching node
\* returns only after both of its children have returned.
C26_JoinBeforeReduce ==
  /\ []JoinsHold
  /\ [][ReturnsAfterChildren]_vars

\* a process that has found a colouring and has joined all its tasks, at
\* the collectives, while a branching node of another process waits for a
\* child
C26_Witness ==
  \E w, u \in Workers :
    /\ w # u
    /\ pc[w] = "ready"
    /\ best[w].numColors < INF
    /\ \E id \in DOMAIN inv[u] : inv[u][id].pc = "wait"

\* ------------------------------------------------------------------------
\* Nodes whose graph is a clique (Spec)
\* ------------------------------------------------------------------------
\* the graphs decomposeBnb was called on by a process that has just built
\* its tasks (main.cpp line 170); no graph for any other state
DecomposeNodes(w) ==
  IF /\ Len(components) = 1
     /\ pc[w] = "tasks"
     /\ DOMAIN inv[w] # {}
     /\ \A id \in DOMAIN inv[w] : inv[w][id].pc = "pending"
  THEN SeqToSet(decomposeBnb(extractSubgraph(fullGraph, components[1]), 0,
                             DecompDepth, NoTasks, INF).nodes)
  ELSE {}

\* C27: a node of branchAndBound or of decomposeBnb whose graph has no
\* non-adjacent pair has lb = ub = n, so that it leaves at the test
\* `lb == ub', and a node with lb < ub has a pair to branch on: the return
\* at `v1 == -1' is never what stops it.
C27_CliqueNodesHaveTightBounds ==
  \A w \in Workers :
    /\ \A id \in DOMAIN inv[w] :
         inv[w][id].pc \in {"crit", "write", "test"} =>
           /\ NonAdjacentPairs(inv[w][id].g) = {} =>
                 inv[w][id].lb = inv[w][id].g.n /\ inv[w][id].ub = inv[w][id].g.n
           /\ inv[w][id].lb < inv[w][id].ub =>
                 selectBranchingPair(inv[w][id].g) # <<-1, -1>>
    /\ \A g \in DecomposeNodes(w) :
         /\ NonAdjacentPairs(g) = {} =>
               heuristicMaxClique(g).size = g.n /\ heuristicColoring(g).k = g.n
         /\ heuristicMaxClique(g).size < heuristicColoring(g).k =>
               selectBranchingPair(g) # <<-1, -1>>

\* a node of branchAndBound at the pruning tests, its graph a clique on
\* three or more vertices
C27_Witness ==
  \E w \in Workers : \E id \in DOMAIN inv[w] :
    /\ inv[w][id].pc = "test"
    /\ inv[w][id].g.n >= 3
    /\ NonAdjacentPairs(inv[w][id].g) = {}
    /\ selectBranchingPair(inv[w][id].g) = <<-1, -1>>

====
